---- MODULE Spec2Model ----
(***************************************************************************)
(* A model of package qcfg (qcfg.go): the line-oriented loader of the      *)
(* block/row/column configuration format, the process-wide name cache,     *)
(* the in-memory tree with its lookups and edits, and the writer.          *)
(*                                                                         *)
(* A Go []byte / string is a sequence of one-character strings; the empty  *)
(* sequence stands for both nil and the empty slice (the code only tests   *)
(* len).  A map is a function whose domain is the set of its keys.         *)
(***************************************************************************)
EXTENDS Integers, Sequences, FiniteSets, TLC

\* ------------------------------------------------------------------ bytes

Min(S) == CHOOSE x \in S : \A y \in S : x <= y
Max(S) == CHOOSE x \in S : \A y \in S : x >= y

\* bytes.Index: the 0-based index of the first occurrence of sep in s, or -1
Index(s, sep) ==
    LET I == {i \in 0..(Len(s) - Len(sep)) : SubSeq(s, i + 1, i + Len(sep)) = sep}
    IN  IF I = {} THEN -1 ELSE Min(I)

\* s[from:] with a 0-based from
From(s, from) == SubSeq(s, from + 1, Len(s))

\* s[:to] with a 0-based exclusive to
UpTo(s, to) == SubSeq(s, 1, to)

\* bytes.TrimLeft followed by bytes.TrimRight with the given cutset
TrimSet(s, cut) ==
    LET keep == {i \in 1..Len(s) : s[i] \notin cut}
    IN  IF keep = {} THEN <<>> ELSE SubSeq(s, Min(keep), Max(keep))

Blank == {" ", "\t"}
Space == {" ", "\t", "\n", "\r"}

\* bytes.TrimSpace
TrimSpace(s) == TrimSet(s, Space)

\* cleanLine: drop a #-comment, then leading and trailing blanks and tabs
cleanLine(line) ==
    LET nn  == Index(line, <<"#">>)
        cut == IF nn >= 0 THEN UpTo(line, nn) ELSE line
    IN  TrimSet(cut, Blank)

\* bytes.SplitN(s, sep, 2) for a one-byte sep: one part, or two
SplitN2(s, sep) ==
    LET nn == Index(s, <<sep>>)
    IN  IF nn < 0 THEN <<s>> ELSE <<UpTo(s, nn), From(s, nn + 1)>>

\* bytes.Split / strings.Split for a one-byte sep: always at least one part
RECURSIVE Split(_, _)
Split(s, sep) ==
    LET nn == Index(s, <<sep>>)
    IN  IF nn < 0 THEN <<s>> ELSE <<UpTo(s, nn)>> \o Split(From(s, nn + 1), sep)

UpperCase == <<"A","B","C","D","E","F","G","H","I","J","K","L","M",
               "N","O","P","Q","R","S","T","U","V","W","X","Y","Z">>
LowerCase == <<"a","b","c","d","e","f","g","h","i","j","k","l","m",
               "n","o","p","q","r","s","t","u","v","w","x","y","z">>

\* bytes.ToLower
ToLower(s) ==
    [i \in 1..Len(s) |->
        IF \E k \in 1..26 : UpperCase[k] = s[i]
        THEN LowerCase[CHOOSE k \in 1..26 : UpperCase[k] = s[i]]
        ELSE s[i]]

kwInclude == <<"%","i","n","c","l","u","d","e">>
kwBlock   == <<"%","b","l","o","c","k">>

\* ------------------------------------------------------- line classifiers

lineIsInclude(line) == Len(line) > 8 /\ UpTo(line, 8) = kwInclude

\* a faulty lineIsBlockEnd: no line ends a block
lineIsBlockEndNever(line) == FALSE

lineIsBlockEnd(line) == Len(line) > 0 /\ line[1] = "}"

lineIsBlockNew(line) ==
    LET parts == SplitN2(line, " ")
    IN  Len(parts) > 1 /\ ToLower(parts[1]) = kwBlock

lineIsAdd(line) == Len(line) > 2 /\ line[1] = "+" /\ line[2] = "="

lineIsOpen(line) == Len(line) > 0 /\ line[1] = "{"

getBlockname(line) ==
    LET parts == SplitN2(line, " ")
    IN  IF Len(parts) > 1 /\ ToLower(parts[1]) = kwBlock
        THEN cleanLine(parts[2])
        ELSE <<>>

\* getFilename indexes byte 0 of the cleaned path, and slices [1:len-1] of a
\* quoted one: it panics on an empty path and on a path that is a lone quote
getFilenamePanics(line) ==
    LET parts == SplitN2(line, " ")
    IN  /\ Len(parts) > 1
        /\ ToLower(parts[1]) = kwInclude
        /\ LET p == cleanLine(parts[2])
           IN  p = <<>> \/ p = <<"\"">>

getFilename(line) ==
    LET parts == SplitN2(line, " ")
    IN  IF Len(parts) > 1 /\ ToLower(parts[1]) = kwInclude
        THEN LET p == cleanLine(parts[2])
             IN  IF p[1] = "\"" THEN SubSeq(p, 2, Len(p) - 1) ELSE p
        ELSE <<>>

HomeDir == <<"/","h">>

\* expandUser: a leading ~/ becomes the home directory and a slash
expandUser(fname) ==
    IF Len(fname) < 2 \/ UpTo(fname, 2) # <<"~","/">>
    THEN fname
    ELSE HomeDir \o <<"/">> \o From(fname, 2)

\* ------------------------------------------------------------------- tree

\* a map with key k set to v
Put(f, k, v) == [x \in (DOMAIN f) \cup {k} |-> IF x = k THEN v ELSE f[x]]

EmptyMap == <<>>

\* &cfgRow{name, make(map[string]string)}
NewRow(name) == [name |-> name, cols |-> EmptyMap]

\* &CfgBlock{name, fname, make(map...), make(map...)}
NewBlock(name, fname) ==
    [name |-> name, fname |-> fname, rows |-> EmptyMap, tbls |-> EmptyMap]

\* the block reached from blk by following path; the path must resolve
RECURSIVE BlockAt(_, _)
BlockAt(blk, path) ==
    IF path = <<>> THEN blk ELSE BlockAt(blk.tbls[Head(path)], Tail(path))

\* blk with the block at path replaced by new (the write through a pointer)
RECURSIVE SetBlockAt(_, _, _)
SetBlockAt(blk, path, new) ==
    IF path = <<>>
    THEN new
    ELSE [blk EXCEPT !.tbls[Head(path)] = SetBlockAt(@, Tail(path), new)]

\* ---------------------------------------------------------------- loadRow

\* the loop over the ;-separated pairs of loadRow: a pair with an empty key or
\* without = is skipped, a later pair overwrites an earlier one of its key
RECURSIVE setCols(_, _)
setCols(cols, pairs) ==
    IF pairs = <<>>
    THEN cols
    ELSE LET kvarr == SplitN2(Head(pairs), "=")
             key   == cleanLine(kvarr[1])
         IN  IF Len(key) < 1 \/ Len(kvarr) < 2
             THEN setCols(cols, Tail(pairs))
             ELSE setCols(Put(cols, key, cleanLine(kvarr[2])), Tail(pairs))

\* the head of loadRow for a line without a row name given: nnNew and nnAdd
\* are the places of the first :: and the first +=.  ok is FALSE where
\* loadRow prints "could not understand" and returns nil.
splitAt(line, nnNew, nnAdd) ==
    IF nnNew >= 0 /\ nnAdd > 0
    THEN IF nnNew > nnAdd
         THEN [ok |-> TRUE, add |-> FALSE,
               name |-> cleanLine(UpTo(line, nnAdd)),
               data |-> cleanLine(From(line, nnAdd + 2))]
         ELSE [ok |-> TRUE, add |-> TRUE,
               name |-> cleanLine(UpTo(line, nnNew)),
               data |-> cleanLine(From(line, nnNew + 2))]
    ELSE IF nnAdd > 0
    THEN [ok |-> TRUE, add |-> TRUE,
          name |-> cleanLine(UpTo(line, nnAdd)),
          data |-> cleanLine(From(line, nnAdd + 2))]
    ELSE IF nnNew > 0
    THEN [ok |-> TRUE, add |-> FALSE,
          name |-> cleanLine(UpTo(line, nnNew)),
          data |-> cleanLine(From(line, nnNew + 2))]
    ELSE [ok |-> FALSE, add |-> FALSE, name |-> <<>>, data |-> <<>>]

\* how the cleaned line splits into row name and row data
splitRow(line, rowName) ==
    IF Len(rowName) < 1
    THEN splitAt(line, Index(line, <<":", ":">>), Index(line, <<"+", "=">>))
    ELSE [ok |-> TRUE, add |-> TRUE, name |-> rowName, data |-> line]

\* the tail of loadRow: the row is looked up, made anew unless it is there
\* and added to, and its columns set from the row data
setRow(rows, sp, row) ==
    [rows |-> Put(rows, sp.name, [row EXCEPT !.cols = setCols(row.cols, Split(sp.data, ";"))]),
     ret  |-> sp.name]

findRow(rows, sp) ==
    IF ~sp.ok
    THEN [rows |-> rows, ret |-> <<>>]
    ELSE setRow(rows, sp, IF sp.name \in DOMAIN rows /\ sp.add
                          THEN rows[sp.name] ELSE NewRow(sp.name))

\* loadRow on the rows of the receiving block: the rows afterwards and the
\* row name returned (empty for nil)
loadRow(rows, rawLine, rowName) == findRow(rows, splitRow(cleanLine(rawLine), rowName))

\* ---------------------------------------------------------------- lookups

\* a nil *CfgBlock
Nil == [nil |-> TRUE]

\* the keys of a map in an iteration order (Go leaves the order unspecified)
RECURSIVE RangeOrder(_)
RangeOrder(S) ==
    IF S = {} THEN <<>>
    ELSE LET k == CHOOSE x \in S : TRUE IN <<k>> \o RangeOrder(S \ {k})

Str(cfg, tbl, row, col, def) ==
    IF tbl \notin DOMAIN cfg.tbls THEN def
    ELSE IF row \notin DOMAIN cfg.tbls[tbl].rows THEN def
    ELSE IF col \notin DOMAIN cfg.tbls[tbl].rows[row].cols THEN def
    ELSE cfg.tbls[tbl].rows[row].cols[col]

SelfStr(cfg, row, col, def) ==
    IF row \notin DOMAIN cfg.rows THEN def
    ELSE IF col \notin DOMAIN cfg.rows[row].cols THEN def
    ELSE cfg.rows[row].cols[col]

\* GetBlock: descend child by child, nil as soon as a segment is missing
RECURSIVE GetBlock(_, _)
GetBlock(cfg, blockPath) ==
    IF blockPath = <<>> THEN cfg
    ELSE IF Head(blockPath) \notin DOMAIN cfg.tbls THEN Nil
    ELSE GetBlock(cfg.tbls[Head(blockPath)], Tail(blockPath))

\* a faulty NestedStr: looks the last segment up in the receiver, without the descent
NestedStrNoDescent(cfg, tbls, row, col, def) ==
    IF Len(tbls) = 0 THEN SelfStr(cfg, row, col, def)
    ELSE Str(cfg, tbls[Len(tbls)], row, col, def)

NestedStr(cfg, tbls, row, col, def) ==
    LET nn == Len(tbls)
    IN  IF nn = 0 THEN SelfStr(cfg, row, col, def)
        ELSE IF nn - 1 = 0 THEN Str(cfg, tbls[1], row, col, def)
        ELSE LET cfg1 == GetBlock(cfg, UpTo(tbls, nn - 1))
             IN  IF cfg1 = Nil THEN def
                 ELSE Str(cfg1, tbls[nn], row, col, def)

GetBlocks(cfg) == RangeOrder(DOMAIN cfg.tbls)

\* a faulty GetRows: ranges over the rows of the receiver, not of the child block
GetRowsOfSelf(cfg, tbl) ==
    IF tbl \in DOMAIN cfg.tbls THEN RangeOrder(DOMAIN cfg.rows) ELSE <<>>

GetRows(cfg, tbl) ==
    IF tbl \in DOMAIN cfg.tbls
    THEN RangeOrder(DOMAIN cfg.tbls[tbl].rows)
    ELSE <<>>

GetCols(cfg, tbl, row) ==
    IF tbl \in DOMAIN cfg.tbls
    THEN IF row \in DOMAIN cfg.tbls[tbl].rows
         THEN RangeOrder(DOMAIN cfg.tbls[tbl].rows[row].cols)
         ELSE <<>>
    ELSE <<>>

RowExists(cfg, block, row) ==
    IF block \notin DOMAIN cfg.tbls THEN FALSE
    ELSE IF row \notin DOMAIN cfg.tbls[block].rows THEN FALSE
    ELSE TRUE

\* Split: strings.Split(cfg.Str(...), ",")
SplitStr(cfg, tbl, row, col, def) == Split(Str(cfg, tbl, row, col, def), ",")

\* the set of a sequence's elements
Elems(seq) == {seq[i] : i \in 1..Len(seq)}

Expandlist(cfg, block, row, col, row2) ==
    IF Len(block) <= 0 \/ Len(row) <= 0 \/ Len(col) <= 0 \/ Len(row2) <= 0
    THEN <<>>
    ELSE LET partsmap ==
                 UNION {Elems(SplitStr(cfg, block, row2, boxtype, <<>>)) :
                            boxtype \in Elems(SplitStr(cfg, block, row, col, <<>>))}
         IN  RangeOrder(partsmap)

\* ----------------------------------------------------------- fmt.Sscanf %d

Digits == <<"0","1","2","3","4","5","6","7","8","9">>
IsDigit(ch) == \E k \in 1..10 : Digits[k] = ch
DigitVal(ch) == (CHOOSE k \in 1..10 : Digits[k] = ch) - 1

\* strconv.ParseInt of an unsigned run of decimal digits
RECURSIVE ParseDigits(_, _)
ParseDigits(tok, acc) ==
    IF tok = <<>> THEN acc ELSE ParseDigits(Tail(tok), acc * 10 + DigitVal(Head(tok)))

\* the longest prefix of s made of bytes that satisfy the digit set of %d,
\* which is 0123456789_
RECURSIVE NumberRun(_)
NumberRun(s) ==
    IF s # <<>> /\ (IsDigit(Head(s)) \/ Head(s) = "_")
    THEN <<Head(s)>> \o NumberRun(Tail(s))
    ELSE <<>>

\* SkipSpace of Sscanf: blanks are skipped, a newline is an error
RECURSIVE SkipBlank(_)
SkipBlank(s) ==
    IF s # <<>> /\ Head(s) \in {" ", "\t", "\r"} THEN SkipBlank(Tail(s)) ELSE s

\* ival := def; fmt.Sscanf(col, "%d", &ival): ival afterwards.  The scan
\* skips leading blanks, takes a sign and the digits that follow and stops
\* there; on an error ival keeps def.  Input left over is not an error.
Sscanf(col, def) ==
    LET s    == SkipBlank(col)
        neg  == s # <<>> /\ Head(s) = "-"
        body == IF s # <<>> /\ Head(s) \in {"+", "-"} THEN Tail(s) ELSE s
        tok  == NumberRun(body)
    IN  IF s = <<>> \/ Head(s) = "\n" THEN def
        ELSE IF tok = <<>> THEN def
        ELSE IF \E i \in 1..Len(tok) : tok[i] = "_" THEN def
        ELSE IF neg THEN 0 - ParseDigits(tok, 0) ELSE ParseDigits(tok, 0)

\* Int (the name Int is taken by the integers)
CfgInt(cfg, tbl, row, col, def) ==
    IF tbl \notin DOMAIN cfg.tbls THEN def
    ELSE IF row \notin DOMAIN cfg.tbls[tbl].rows THEN def
    ELSE IF col \notin DOMAIN cfg.tbls[tbl].rows[row].cols THEN def
    ELSE Sscanf(cfg.tbls[tbl].rows[row].cols[col], def)

SelfInt(cfg, row, col, def) ==
    IF row \notin DOMAIN cfg.rows THEN def
    ELSE IF col \notin DOMAIN cfg.rows[row].cols THEN def
    ELSE Sscanf(cfg.rows[row].cols[col], def)

NestedInt(cfg, tbls, row, col, def) ==
    LET nn == Len(tbls)
    IN  IF nn = 0 THEN SelfInt(cfg, row, col, def)
        ELSE IF nn - 1 = 0 THEN CfgInt(cfg, tbls[1], row, col, def)
        ELSE LET cfg1 == GetBlock(cfg, UpTo(tbls, nn - 1))
             IN  IF cfg1 = Nil THEN def
                 ELSE CfgInt(cfg1, tbls[nn], row, col, def)

\* the Int64 variants scan into an int exactly as the Int variants do and
\* convert the result
Int64(cfg, tbl, row, col, def) == CfgInt(cfg, tbl, row, col, def)

SelfInt64(cfg, row, col, def) == SelfInt(cfg, row, col, def)

NestedInt64(cfg, tbls, row, col, def) == NestedInt(cfg, tbls, row, col, def)

\* ------------------------------------------------------ EditEntry, CfgWrite

\* a faulty EditEntry: the row is made anew even when the block has it
EditEntryNewRow(cfg, tbl, row, col, value) ==
    LET t0 == IF tbl \in DOMAIN cfg.tbls THEN cfg.tbls[tbl] ELSE NewBlock(cfg.name, <<>>)
        r1 == [NewRow(row) EXCEPT !.cols = Put(@, col, value)]
        t1 == [t0 EXCEPT !.rows = Put(t0.rows, row, r1)]
    IN  [cfg EXCEPT !.tbls = Put(cfg.tbls, tbl, t1)]

\* EditEntry on the receiving block: the block afterwards.  A child block
\* created here is named after the receiver, as in the code.
EditEntry(cfg, tbl, row, col, value) ==
    LET t0 == IF tbl \in DOMAIN cfg.tbls THEN cfg.tbls[tbl] ELSE NewBlock(cfg.name, <<>>)
        r0 == IF row \in DOMAIN t0.rows THEN t0.rows[row] ELSE NewRow(row)
        r1 == [r0 EXCEPT !.cols = Put(r0.cols, col, value)]
        t1 == [t0 EXCEPT !.rows = Put(t0.rows, row, r1)]
    IN  [cfg EXCEPT !.tbls = Put(cfg.tbls, tbl, t1)]

\* what CfgWrite can emit for the columns of a row, one text per order in
\* which the range over the map may visit them
RECURSIVE WriteCols(_)
WriteCols(cols) ==
    IF DOMAIN cols = {} THEN {<<>>}
    ELSE UNION {{k \o <<"=">> \o cols[k] \o <<";", " ">> \o rest :
                    rest \in WriteCols([x \in (DOMAIN cols) \ {k} |-> cols[x]])} :
                k \in DOMAIN cols}

RECURSIVE WriteRows(_)
WriteRows(rows) ==
    IF DOMAIN rows = {} THEN {<<>>}
    ELSE UNION {UNION {{<<"\t">> \o r \o <<"\t", ":", ":", " ">> \o ct \o <<"\n">> \o rest :
                          rest \in WriteRows([x \in (DOMAIN rows) \ {r} |-> rows[x]])} :
                       ct \in WriteCols(rows[r].cols)} :
                r \in DOMAIN rows}

RECURSIVE WriteTbls(_)
WriteTbls(tbls) ==
    IF DOMAIN tbls = {} THEN {<<>>}
    ELSE UNION {UNION {{<<"\n">> \o kwBlock \o <<" ">> \o t \o <<"\n", "{", "\n">>
                           \o rt \o <<"\n", "}", "\n">> \o rest :
                          rest \in WriteTbls([x \in (DOMAIN tbls) \ {t} |-> tbls[x]])} :
                       rt \in WriteRows(tbls[t].rows)} :
                t \in DOMAIN tbls}

\* CfgWrite: the contents the file can have afterwards.  Only the child
\* blocks of the receiver are written, each with its rows; neither the
\* receiver's own rows nor the blocks nested in a child are.
CfgWrite(cfg) == WriteTbls(cfg.tbls)

\* ------------------------------------------------------------------ state

VARIABLES
    fs,        \* the file system: file name -> content, for the files that exist
    cfgs,      \* var cfgs: configuration name -> the tree instance registered
    heap,      \* the tree instances: instance -> root CfgBlock with all below it
    stack,     \* the loader's call stack, innermost call last; empty when idle
    readers,   \* the open bufio.Readers, innermost include last: file and offset
    last,      \* the most recent API call: operation, outcome, name, instance, arguments
    lastRead,  \* the line most recently read by the loader, as it stands in the file
    nEdits     \* the EditEntry calls made so far

vars == <<fs, cfgs, heap, stack, readers, last, lastRead, nEdits>>

\* the EditEntry calls of a run
MaxEdits == 2

\* the files the process may hold open at once (its descriptor limit)
MaxOpen == 3

Front(seq) == SubSeq(seq, 1, Len(seq) - 1)
Top(seq) == seq[Len(seq)]

\* bufio.Reader.ReadBytes('\n') at offset pos: the bytes up to and including
\* the delimiter, or what is left together with io.EOF
ReadBytes(content, pos) ==
    LET nn == Index(From(content, pos), <<"\n">>)
    IN  IF nn < 0
        THEN [buf |-> From(content, pos), err |-> TRUE, pos |-> Len(content)]
        ELSE [buf |-> SubSeq(content, pos + 1, pos + nn + 1), err |-> FALSE,
              pos |-> pos + nn + 1]

\* buf = buf[:len(buf)-1], for a buf of at least one byte
chop(buf) == UpTo(buf, Len(buf) - 1)

\* the line without its delimiter, as the file has it
rawLine(buf) == IF buf # <<>> /\ Top(buf) = "\n" THEN Front(buf) ELSE buf

\* a call of loadCfgFile or loadBlock
Frame(fn, rdr, path, fname) ==
    [fn |-> fn, rdr |-> rdr, path |-> path, fname |-> fname,
     prevRow |-> <<>>, done |-> FALSE]

\* the returns: a call whose loop is over returns, an include's reader is
\* closed by its caller, and the caller goes on with its own loop test
RECURSIVE Unwind(_, _)
Unwind(stk, rds) ==
    IF stk = <<>> \/ ~Top(stk).done
    THEN [stack |-> stk, readers |-> rds]
    ELSE Unwind(Front(stk), IF Top(stk).fn = "loadCfgFile" THEN Front(rds) ELSE rds)

\* os.Open succeeds
CanOpen(fname, rds) == fname \in DOMAIN fs /\ Len(rds) < MaxOpen

\* one pass of the loop of loadCfgFile / loadBlock in the innermost call:
\* read a line, classify it, act on it.  cfg is the root of the tree loaded.
\* The pass is taken in steps: the line read (LoopPass), the loop state with
\* the read recorded (LoopLine), and the act on the cleaned line (LoopAct).
\* the row a data line gave is stored and remembered as prevRow
LoopRow(cfg, stk1, rds1, f, blk, lr) ==
    [cfg |-> SetBlockAt(cfg, f.path, [blk EXCEPT !.rows = lr.rows]), panic |-> FALSE]
        @@ Unwind([stk1 EXCEPT ![Len(stk1)].prevRow = lr.ret], rds1)

LoopInclude(cfg, stk1, rds1, f, fname2) ==
    IF ~CanOpen(fname2, rds1)
    THEN [cfg |-> cfg, panic |-> TRUE, stack |-> <<>>, readers |-> <<>>]
    ELSE [cfg |-> cfg, panic |-> FALSE,
          stack |-> Append(stk1, Frame("loadCfgFile", Len(rds1) + 1, f.path, fname2)),
          readers |-> Append(rds1, [fname |-> fname2, pos |-> 0])]

LoopBlockNew(cfg, stk1, rds1, f, blk, name2) ==
    [cfg |-> SetBlockAt(cfg, f.path,
                 [blk EXCEPT !.tbls = Put(blk.tbls, name2, NewBlock(name2, f.fname))]),
     panic |-> FALSE,
     stack |-> Append(stk1, Frame("loadBlock", f.rdr, Append(f.path, name2), f.fname)),
     readers |-> rds1]

LoopAct(cfg, stk1, rds1, f, buf) ==
    IF Len(buf) < 1 THEN [cfg |-> cfg, panic |-> FALSE] @@ Unwind(stk1, rds1)
    ELSE IF lineIsInclude(buf) THEN
        IF getFilenamePanics(TrimSpace(buf))
        THEN [cfg |-> cfg, panic |-> TRUE, stack |-> <<>>, readers |-> <<>>]
        ELSE LoopInclude(cfg, stk1, rds1, f, expandUser(getFilename(TrimSpace(buf))))
    ELSE IF lineIsBlockEnd(buf) THEN
        [cfg |-> cfg, panic |-> FALSE]
            @@ Unwind([stk1 EXCEPT ![Len(stk1)].done = TRUE], rds1)
    ELSE IF lineIsBlockNew(buf) THEN
        LoopBlockNew(cfg, stk1, rds1, f, BlockAt(cfg, f.path), getBlockname(buf))
    ELSE IF lineIsAdd(buf) THEN
        LoopRow(cfg, stk1, rds1, f, BlockAt(cfg, f.path),
                loadRow(BlockAt(cfg, f.path).rows, From(buf, 2), f.prevRow))
    ELSE IF lineIsOpen(buf) THEN [cfg |-> cfg, panic |-> FALSE] @@ Unwind(stk1, rds1)
    ELSE
        LoopRow(cfg, stk1, rds1, f, BlockAt(cfg, f.path),
                loadRow(BlockAt(cfg, f.path).rows, buf, <<>>))

LoopLine(cfg, stk, rds, f, r) ==
    LoopAct(cfg,
            [stk EXCEPT ![Len(stk)].done = r.err],
            [rds EXCEPT ![f.rdr].pos = r.pos],
            f,
            IF Len(r.buf) < 1 THEN <<>> ELSE cleanLine(chop(r.buf)))

LoopPass(cfg, stk, rds) ==
    LoopLine(cfg, stk, rds, Top(stk),
             ReadBytes(fs[rds[Top(stk).rdr].fname], rds[Top(stk).rdr].pos))

\* the record of an API call: a lookup also records what it returned
Returned(op, st, name, id, arg, ret) ==
    [op |-> op, st |-> st, name |-> name, id |-> id, arg |-> arg, ret |-> ret]

Call(op, st, name, id, arg) == Returned(op, st, name, id, arg, <<>>)

\* a faulty lookup: the cache is never consulted
lookupCfgMiss(name) == 0

\* cfg, ok := cfgs[_name]: the instance registered under the name, 0 for !ok
lookupCfg(name) == IF name \in DOMAIN cfgs THEN cfgs[name] ELSE 0

\* a fresh instance
NewId == Cardinality(DOMAIN heap) + 1

\* NewCfg up to the call of loadCfgFile: a registered name returns its
\* instance at once; otherwise an empty tree is registered first and the
\* file opened next, which panics when it cannot be opened
NewCfg(name, fname0) ==
    LET fname == expandUser(fname0)
        hit   == lookupCfg(name)
    IN  /\ stack = <<>>
        /\ IF hit # 0
           THEN /\ last' = Call("NewCfg", "hit", name, hit, <<fname0>>)
                /\ UNCHANGED <<fs, cfgs, heap, stack, readers, lastRead, nEdits>>
           ELSE /\ heap' = Put(heap, NewId, NewBlock(name, fname))
                /\ cfgs' = Put(cfgs, name, NewId)
                /\ IF CanOpen(fname, <<>>)
                   THEN /\ stack' = <<Frame("loadCfgFile", 1, <<>>, fname)>>
                        /\ readers' = <<[fname |-> fname, pos |-> 0]>>
                        /\ last' = Call("NewCfg", "loading", name, NewId, <<fname0>>)
                   ELSE /\ last' = Call("NewCfg", "panic", name, NewId, <<fname0>>)
                        /\ UNCHANGED <<stack, readers>>
                /\ UNCHANGED <<fs, lastRead, nEdits>>

\* the loader at work inside NewCfg: one line is read and acted on; NewCfg
\* returns the tree when the outermost loadCfgFile has returned
LoadStep ==
    /\ stack # <<>>
    /\ \E n \in {LoopPass(heap[last.id], stack, readers)} :
          /\ heap' = [heap EXCEPT ![last.id] = n.cfg]
          /\ stack' = n.stack
          /\ readers' = n.readers
          /\ last' = IF n.panic THEN [last EXCEPT !.st = "panic"]
                     ELSE IF n.stack = <<>> THEN [last EXCEPT !.st = "loaded"]
                     ELSE last
    /\ \E r \in {ReadBytes(fs[readers[Top(stack).rdr].fname], readers[Top(stack).rdr].pos)} :
          lastRead' = [text |-> rawLine(r.buf), path |-> Top(stack).path, eof |-> r.err]
    /\ UNCHANGED <<fs, cfgs, nEdits>>

\* NewCfgMem: panics when the name is registered, else registers an empty tree
NewCfgMem(name) ==
    /\ stack = <<>>
    /\ IF lookupCfg(name) # 0
       THEN /\ last' = Call("NewCfgMem", "panic", name, 0, <<>>)
            /\ UNCHANGED <<cfgs, heap>>
       ELSE /\ heap' = Put(heap, NewId, NewBlock(name, <<>>))
            /\ cfgs' = Put(cfgs, name, NewId)
            /\ last' = Call("NewCfgMem", "ok", name, NewId, <<>>)
    /\ UNCHANGED <<fs, stack, readers, lastRead, nEdits>>

\* EditEntry on the block that GetBlock(path) gives in tree id
EditEntryCall(id, path, tbl, row, col, value) ==
    /\ stack = <<>>
    /\ nEdits < MaxEdits
    /\ id \in DOMAIN heap
    /\ GetBlock(heap[id], path) # Nil
    /\ heap' = [heap EXCEPT ![id] =
                   SetBlockAt(@, path, EditEntry(BlockAt(@, path), tbl, row, col, value))]
    /\ nEdits' = nEdits + 1
    /\ last' = Call("EditEntry", "ok", <<>>, id, <<path, tbl, row, col, value>>)
    /\ UNCHANGED <<fs, cfgs, stack, readers, lastRead>>

\* CfgWrite of tree id to a file, created or truncated
CfgWriteCall(id, filename0) ==
    /\ stack = <<>>
    /\ id \in DOMAIN heap
    /\ \E text \in CfgWrite(heap[id]) :
           fs' = Put(fs, expandUser(filename0), text)
    /\ last' = Call("CfgWrite", "ok", <<>>, id, <<filename0>>)
    /\ UNCHANGED <<cfgs, heap, stack, readers, lastRead, nEdits>>

\* NestedStr on the root of tree id
NestedStrCall(id, tbls, row, col, def) ==
    /\ stack = <<>>
    /\ id \in DOMAIN heap
    /\ last' = Returned("NestedStr", "ok", <<>>, id, <<tbls, row, col, def>>,
                        NestedStr(heap[id], tbls, row, col, def))
    /\ UNCHANGED <<fs, cfgs, heap, stack, readers, lastRead, nEdits>>

\* the integer lookup fn: Int and Int64 on the root with the one block of
\* tbls, SelfInt and SelfInt64 on the block GetBlock(tbls) gives, NestedInt
\* and NestedInt64 on the root
IntBy(fn, cfg, tbls, row, col, def) ==
    CASE fn = "Int"         -> CfgInt(cfg, tbls[1], row, col, def)
      [] fn = "Int64"       -> Int64(cfg, tbls[1], row, col, def)
      [] fn = "SelfInt"     -> SelfInt(GetBlock(cfg, tbls), row, col, def)
      [] fn = "SelfInt64"   -> SelfInt64(GetBlock(cfg, tbls), row, col, def)
      [] fn = "NestedInt"   -> NestedInt(cfg, tbls, row, col, def)
      [] fn = "NestedInt64" -> NestedInt64(cfg, tbls, row, col, def)

IntFns == {"Int", "Int64", "SelfInt", "SelfInt64", "NestedInt", "NestedInt64"}

IntCall(fn, id, tbls, row, col, def) ==
    /\ stack = <<>>
    /\ id \in DOMAIN heap
    /\ fn \in {"Int", "Int64"} => Len(tbls) = 1
    /\ fn \in {"SelfInt", "SelfInt64"} => GetBlock(heap[id], tbls) # Nil
    /\ last' = Returned(fn, "ok", <<>>, id, <<tbls, row, col, def>>,
                        IntBy(fn, heap[id], tbls, row, col, def))
    /\ UNCHANGED <<fs, cfgs, heap, stack, readers, lastRead, nEdits>>

GetRowsCall(id, tbl) ==
    /\ stack = <<>>
    /\ id \in DOMAIN heap
    /\ last' = Returned("GetRows", "ok", <<>>, id, <<tbl>>, GetRows(heap[id], tbl))
    /\ UNCHANGED <<fs, cfgs, heap, stack, readers, lastRead, nEdits>>

GetColsCall(id, tbl, row) ==
    /\ stack = <<>>
    /\ id \in DOMAIN heap
    /\ last' = Returned("GetCols", "ok", <<>>, id, <<tbl, row>>, GetCols(heap[id], tbl, row))
    /\ UNCHANGED <<fs, cfgs, heap, stack, readers, lastRead, nEdits>>

RowExistsCall(id, block, row) ==
    /\ stack = <<>>
    /\ id \in DOMAIN heap
    /\ last' = Returned("RowExists", "ok", <<>>, id, <<block, row>>,
                        RowExists(heap[id], block, row))
    /\ UNCHANGED <<fs, cfgs, heap, stack, readers, lastRead, nEdits>>

ExpandlistCall(id, block, row, col, row2) ==
    /\ stack = <<>>
    /\ id \in DOMAIN heap
    /\ last' = Returned("Expandlist", "ok", <<>>, id, <<block, row, col, row2>>,
                        Expandlist(heap[id], block, row, col, row2))
    /\ UNCHANGED <<fs, cfgs, heap, stack, readers, lastRead, nEdits>>

\* ----------------------------------------------------------------- inputs

\* the lines of a text file, each ended by a newline
RECURSIVE Text(_)
Text(lines) == IF lines = <<>> THEN <<>> ELSE Head(lines) \o <<"\n">> \o Text(Tail(lines))

N1 == <<"n","1">>
N2 == <<"n","2">>
Names == {N1, N2}

fM == <<"m">>
fI == <<"i">>
fO == <<"o">>
\* a file of the home directory, and that file as the caller names it
fH == HomeDir \o <<"/", "m">>
fT == <<"~", "/", "m">>

nB == <<"b">>
nD == <<"d">>
nR == <<"r">>
nS == <<"s">>
nC == <<"c">>
nX == <<"x">>

\* a configuration in the manner of _sample.cfg: a row of the root, a block with
\* a continued row, lists, numbers, an include and a nested block
SampleLines ==
    <<<<"r","0"," ",":",":"," ","a","=","1",";"," "," "," ","#"," ","a"," ","r","o","w"," ","o","f"," ","t","h","e"," ","r","o","o","t">>,
      <<"%","b","l","o","c","k"," ","b">>,
      <<"{">>,
      <<"r"," ",":",":"," ","c","=","x",",","y",";"," ","n","=","1","2","a",";">>,
      <<"+","="," ","a","=","8",";">>,
      <<"s"," ",":",":"," ","x","=","a",",","b",";"," ","y","=","b",",","c",";">>,
      <<"%","i","n","c","l","u","d","e"," ","i">>,
      <<"%","B","l","o","c","k"," ","d">>,
      <<"{">>,
      <<"r"," ",":",":"," ","c","=","v",";">>,
      <<"}">>,
      <<"}">>>>

\* the file the sample includes
SampleInclude ==
    <<<<"t"," ",":",":"," ","n","=","a","b","c",";"," ","k","=","-","3",";">>>>

\* what the caller passes
OpenNames == {fM, fT}
\* the file that is rewritten and removed between calls
ChangedNames == {fM}
\* the entries EditEntry is called for, as <<path of the receiver, block, row,
\* column>>: an entry the sample has, a new row, a new block, and a new
\* column below the nested receiver b
EditTargets ==
    {<<<<>>, nB, nR, nC>>, <<<<>>, nB, nX, nC>>, <<<<>>, nX, nR, nC>>,
     <<<<nB>>, nD, nR, nX>>}
EditVals == {<<"7",";","#">>}
Defaults == {<<"D">>}
IntDefaults == {-1}

\* another configuration a file may be rewritten with:  b :: c=2
OtherLines == {<<nB \o <<" ",":",":"," ">> \o nC \o <<"=","2">>>>}

\* the file system under the caller's hands between two calls: a file is
\* created or rewritten with another configuration, or removed
FileChange(fname) ==
    /\ stack = <<>>
    /\ \/ \E lines \in OtherLines : fs' = Put(fs, fname, Text(lines))
       \/ /\ fname \in DOMAIN fs
          /\ fs' = [x \in (DOMAIN fs) \ {fname} |-> fs[x]]
    /\ UNCHANGED <<cfgs, heap, stack, readers, last, lastRead, nEdits>>

Init ==
    /\ fs = (fM :> Text(SampleLines) @@ fI :> Text(SampleInclude)
             @@ fH :> Text(SampleInclude))
    /\ cfgs = EmptyMap
    /\ heap = EmptyMap
    /\ stack = <<>>
    /\ readers = <<>>
    /\ last = Call("none", "ok", <<>>, 0, <<>>)
    /\ lastRead = [text |-> <<>>, path |-> <<>>, eof |-> FALSE]
    /\ nEdits = 0

Next ==
    \/ \E name \in Names, fname \in OpenNames : NewCfg(name, fname)
    \/ LoadStep
    \/ \E name \in Names : NewCfgMem(name)
    \/ \E id \in DOMAIN heap, t \in EditTargets, value \in EditVals :
           EditEntryCall(id, t[1], t[2], t[3], t[4], value)
    \/ \E fname \in ChangedNames : FileChange(fname)

Spec == Init /\ [][Next]_vars

\* ---------------------------------------------------------------- queries

\* the block names, row names and column names lookups are made with
QueryBlocks == {nB, nD, nX}
QueryRows == {nR, nX}
QueryCols == {nC, nX}
ListRows == {nS, nX}
IntPaths == {<<nB>>, <<nB, nD>>}
IntRows == {nR, <<"t">>}
IntCols == {nC, <<"n">>, <<"k">>}

\* the block paths nested lookups are made with: the empty path, one block,
\* and longer paths that resolve or miss at the first, a middle or the last
\* segment
QueryPaths ==
    {<<>>, <<nB>>, <<nX>>, <<nD>>, <<nB, nD>>, <<nB, nX>>, <<nD, nB>>, <<nX, nB>>,
     <<nB, nD, nX>>, <<nB, nX, nD>>, <<nD, nB, nD>>}

\* one configuration, loaded from the sample or built in memory, its edits
\* and the lookups made on it
NextQuery ==
    \/ NewCfg(N1, fM)
    \/ LoadStep
    \/ NewCfgMem(N1)
    \/ \E id \in DOMAIN heap, t \in EditTargets, value \in EditVals :
           EditEntryCall(id, t[1], t[2], t[3], t[4], value)
    \/ \E id \in DOMAIN heap, p \in QueryPaths, row \in QueryRows, col \in QueryCols,
          d \in Defaults : NestedStrCall(id, p, row, col, d)
    \/ \E fn \in IntFns, id \in DOMAIN heap, p \in IntPaths, row \in IntRows,
          col \in IntCols, d \in IntDefaults : IntCall(fn, id, p, row, col, d)
    \/ \E id \in DOMAIN heap, b \in QueryBlocks : GetRowsCall(id, b)
    \/ \E id \in DOMAIN heap, b \in QueryBlocks, r \in QueryRows : GetColsCall(id, b, r)
    \/ \E id \in DOMAIN heap, b \in QueryBlocks, r \in QueryRows : RowExistsCall(id, b, r)
    \/ \E id \in DOMAIN heap, b \in {nB, nX}, r \in QueryRows, c \in QueryCols,
          r2 \in ListRows : ExpandlistCall(id, b, r, c, r2)

SpecQuery == Init /\ [][NextQuery]_vars

NoDup(seq) == \A i, j \in 1..Len(seq) : i # j => seq[i] # seq[j]

\* the paths of all blocks of a tree, the root's being the empty path
RECURSIVE AllPaths(_)
AllPaths(blk) ==
    {<<>>} \cup UNION {{<<t>> \o p : p \in AllPaths(blk.tbls[t])} : t \in DOMAIN blk.tbls}

\* the rows of a tree as <<block path, row>>
AllRows(cfg) ==
    UNION {{<<p, r>> : r \in DOMAIN BlockAt(cfg, p).rows} : p \in AllPaths(cfg)}

\* the entries of a tree as <<block path, row, column, value>>
AllEntries(cfg) ==
    UNION {UNION {{<<p, r, c, BlockAt(cfg, p).rows[r].cols[c]>> :
                      c \in DOMAIN BlockAt(cfg, p).rows[r].cols} :
                  r \in DOMAIN BlockAt(cfg, p).rows} :
           p \in AllPaths(cfg)}

\* the value stored at (row, col) of a block, or none; none for a nil block
Stored(blk, row, col) ==
    IF blk # Nil /\ row \in DOMAIN blk.rows /\ col \in DOMAIN blk.rows[row].cols
    THEN {blk.rows[row].cols[col]}
    ELSE {}

\* ------------------------------------------------------------------ loads

\* the files loads are made from: a block b opened, then up to MaxBody
\* fragments: a row, a continuation, a line that is not understood, an
\* include, a nested block with a row, a block end
MaxBody == 3

HeaderLines == <<kwBlock \o <<" ">> \o nB, <<"{">>>>

RowLine  == <<"r"," ",":",":"," ","a","=","1",";"," ","c"," ","="," ","v">>
AddLine  == <<"+","="," ","b","=","2",";">>
JunkLine == <<"j","u","n","k">>
IncLine  == kwInclude \o <<" ">> \o fI
EndLine  == <<"}">>
SubLines == <<kwBlock \o <<" ">> \o nD, <<"{">>, <<"t"," ",":",":"," ","a","=","2",";">>>>

Fragments ==
    {<<RowLine>>, <<AddLine>>, <<JunkLine>>, <<IncLine>>, SubLines \o <<EndLine>>, <<EndLine>>}

\* what the included file holds: a continuation, a block end, a block left
\* open, a row
Includes == {<<AddLine>>, <<EndLine>>, SubLines, <<<<"s"," ",":",":"," ","c"," ","="," ","v">>>>}

Bodies == UNION {[1..n -> Fragments] : n \in 0..MaxBody}

RECURSIVE Flatten(_)
Flatten(frags) == IF frags = <<>> THEN <<>> ELSE Head(frags) \o Flatten(Tail(frags))

\* the lines with every include line replaced by the lines of the included file
RECURSIVE Inline(_, _)
Inline(lines, inc) ==
    IF lines = <<>> THEN <<>>
    ELSE (IF Head(lines) = IncLine THEN inc ELSE <<Head(lines)>>) \o Inline(Tail(lines), inc)

\* a text file of the lines, its last line ended by a newline or not
File(lines, nl) == IF nl \/ lines = <<>> THEN Text(lines) ELSE Front(Text(lines))

\* file m includes file i; file o is m with i inlined
InitLoad ==
    /\ \E body \in Bodies, inc \in Includes, nl \in BOOLEAN :
          fs = (fM :> File(HeaderLines \o Flatten(body), nl)
                @@ fI :> File(inc, nl)
                @@ fO :> File(Inline(HeaderLines \o Flatten(body), inc), nl))
    /\ cfgs = EmptyMap
    /\ heap = EmptyMap
    /\ stack = <<>>
    /\ readers = <<>>
    /\ last = Call("none", "ok", <<>>, 0, <<>>)
    /\ lastRead = [text |-> <<>>, path |-> <<>>, eof |-> FALSE]
    /\ nEdits = 0

\* file m is loaded under n1 and then file o under n2
NextLoad ==
    \/ NewCfg(N1, fM)
    \/ /\ N1 \in DOMAIN cfgs
       /\ NewCfg(N2, fO)
    \/ LoadStep

SpecLoad == InitLoad /\ [][NextLoad]_vars

\* what a tree holds, whatever its blocks are called by the loader and
\* whichever file they came from: rows with their columns, and child blocks
RECURSIVE Content(_)
Content(blk) ==
    [rows |-> [r \in DOMAIN blk.rows |-> blk.rows[r].cols],
     tbls |-> [t \in DOMAIN blk.tbls |-> Content(blk.tbls[t])]]

\* a line that defines a row: a name, ::, and pairs; no comment
IsRowLine(text) ==
    /\ Index(text, <<":", ":">>) > 0
    /\ Index(text, <<"+", "=">>) < 0
    /\ Index(text, <<"#">>) < 0
    /\ text[1] \notin {"%", "{", "}"}

\* a continuation line: += and pairs
IsAddLine(text) ==
    /\ Len(text) > 2 /\ text[1] = "+" /\ text[2] = "="
    /\ Index(text, <<":", ":">>) < 0
    /\ Index(From(text, 2), <<"+", "=">>) < 0
    /\ Index(text, <<"#">>) < 0

\* the pairs c = v a line gives, as the format reads it: the texts between
\* the semicolons, split at the first =, both sides trimmed; a later pair of
\* a column stands for it
PairsOf(data) ==
    LET parts == Split(data, ";")
        keyed == {i \in 1..Len(parts) : Index(parts[i], <<"=">>) > 0}
        key(i) == TrimSet(UpTo(parts[i], Index(parts[i], <<"=">>)), Blank)
        val(i) == TrimSet(From(parts[i], Index(parts[i], <<"=">>) + 1), Blank)
    IN  {<<key(i), val(i)>> : i \in {j \in keyed : key(j) # <<>> /\
                                       \A k \in keyed : k > j => key(k) # key(j)}}

RowNameOf(text) == TrimSet(UpTo(text, Index(text, <<":", ":">>)), Blank)
RowDataOf(text) == From(text, Index(text, <<":", ":">>) + 2)

\* ----------------------------------------------------------------- writes

\* the entries a tree is built with, as <<block, row, column>> of EditEntry on
\* the root, and the values: a plain one, and one with a semicolon and a
\* comment sign in it
WriteTargets == {<<nB, nR, nC>>, <<nB, nX, nC>>, <<nX, nR, nC>>}
WriteVals == {<<"7">>, <<"7", ";", "#">>}

\* no file exists yet
InitWrite ==
    /\ fs = EmptyMap
    /\ cfgs = EmptyMap
    /\ heap = EmptyMap
    /\ stack = <<>>
    /\ readers = <<>>
    /\ last = Call("none", "ok", <<>>, 0, <<>>)
    /\ lastRead = [text |-> <<>>, path |-> <<>>, eof |-> FALSE]
    /\ nEdits = 0

\* a tree made in memory under name n1 and edited, written to file o, and
\* file o loaded under name n2
NextWrite ==
    \/ NewCfgMem(N1)
    \/ \E t \in WriteTargets, value \in WriteVals :
           /\ N1 \in DOMAIN cfgs
           /\ EditEntryCall(cfgs[N1], <<>>, t[1], t[2], t[3], value)
    \/ /\ N1 \in DOMAIN cfgs
       /\ CfgWriteCall(cfgs[N1], fO)
    \/ NewCfg(N2, fO)
    \/ LoadStep

SpecWrite == InitWrite /\ [][NextWrite]_vars

\* ------------------------------------------------------------------- rows

\* the row lines of block b in the files loaded here: plain definitions of
\* rows r and s, a line for r with :: first and += in its value, and a line
\* for r with += first and :: in its value
PlainLine  == <<"r"," ",":",":"," ","a","=","1",";">>
OtherPlain == <<"r"," ",":",":"," ","d","=","4",";">>
NewFirst   == <<"r"," ",":",":"," ","b","=","x","+","=","y",";">>
AddFirst   == <<"r"," ","+","="," ","c","=","x",":",":","y",";">>
RowLines == {PlainLine, OtherPlain, NewFirst, AddFirst}

RowBodies == UNION {[1..n -> RowLines] : n \in 0..MaxBody}

InitRows ==
    /\ \E body \in RowBodies : fs = (fM :> Text(HeaderLines \o body \o <<EndLine>>))
    /\ cfgs = EmptyMap
    /\ heap = EmptyMap
    /\ stack = <<>>
    /\ readers = <<>>
    /\ last = Call("none", "ok", <<>>, 0, <<>>)
    /\ lastRead = [text |-> <<>>, path |-> <<>>, eof |-> FALSE]
    /\ nEdits = 0

NextRows ==
    \/ NewCfg(N1, fM)
    \/ LoadStep

SpecRows == InitRows /\ [][NextRows]_vars

\* --------------------------------------------------------------- includes

\* files that include each other: m holds a row and an include of m itself
\* or of i, with or without a row after it; i holds a row and no include, an
\* include of m, or an include of i itself.  Every include target exists.
IncSelf == kwInclude \o <<" ">> \o fM
CycleMains ==
    {<<PlainLine>> \o <<inc>> \o post : inc \in {IncSelf, IncLine}, post \in {<<>>, <<OtherPlain>>}}
CycleIncludes ==
    {pre \o inc : pre \in {<<>>, <<NewFirst>>}, inc \in {<<>>, <<IncSelf>>, <<IncLine>>}}

InitCycle ==
    /\ \E main \in CycleMains, inc \in CycleIncludes, nl \in BOOLEAN :
          fs = (fM :> File(main, nl) @@ fI :> File(inc, TRUE))
    /\ cfgs = EmptyMap
    /\ heap = EmptyMap
    /\ stack = <<>>
    /\ readers = <<>>
    /\ last = Call("none", "ok", <<>>, 0, <<>>)
    /\ lastRead = [text |-> <<>>, path |-> <<>>, eof |-> FALSE]
    /\ nEdits = 0

NextCycle ==
    \/ \E name \in Names : NewCfg(name, fM)
    \/ LoadStep

SpecCycle == InitCycle /\ [][NextCycle]_vars

\* ------------------------------------------------------------------ claims

\* C1: once a row line `r :: ...; c = v; ...` lying inside block b has been
\* read by the load of a file, be it the last line of the file without a
\* newline, Str(b, r, c, d) returns v, the text between = and the next ; or
\* the end of the line, trimmed.
C1_StrReturnsValue ==
    (last.op = "NewCfg" /\ last.st \in {"loading", "loaded"}
        /\ lastRead.path = <<nB>> /\ lastRead.text # <<>> /\ IsRowLine(lastRead.text))
    => \A kv \in PairsOf(RowDataOf(lastRead.text)) :
           \A d \in Defaults :
               Str(heap[last.id], nB, RowNameOf(lastRead.text), kv[1], d) = kv[2]

\* C3: in the load of a file without include lines, once a continuation line
\* `+= c = v; ...`, ended by a newline, has been read in a block scope that
\* has rows, a row of that scope has every column c of the line with its
\* value v.
C3_ContinuationMerges ==
    (last.op = "NewCfg" /\ last.st \in {"loading", "loaded"}
        /\ fs[fM] = fs[fO]
        /\ ~lastRead.eof /\ lastRead.text # <<>> /\ IsAddLine(lastRead.text)
        /\ DOMAIN BlockAt(heap[last.id], lastRead.path).rows # {})
    => \E r \in DOMAIN BlockAt(heap[last.id], lastRead.path).rows :
           \A kv \in PairsOf(From(lastRead.text, 2)) :
               Stored(BlockAt(heap[last.id], lastRead.path), r, kv[1]) = {kv[2]}

\* C4: for files whose lines all end in a newline, the tree loaded from file
\* m, which includes file i, holds what the tree loaded from file o holds,
\* o being m with the lines of i in the place of the include line.
C4_IncludeIsInlining ==
    (stack = <<>> /\ last.st = "loaded" /\ N1 \in DOMAIN cfgs /\ N2 \in DOMAIN cfgs
        /\ \A f \in {fM, fI, fO} : Top(fs[f]) = "\n")
    => Content(heap[cfgs[N1]]) = Content(heap[cfgs[N2]])

\* C2: a NewCfg(name, path) issued when name is registered returns the instance
\* registered under that name, which is the one registered first because a
\* registered name never changes its instance; the tree, the cache and the
\* loader are left as they were (no file is opened or read), whatever the
\* path and whatever the file holds.
C2_CachedInstance ==
    [][/\ \A n \in DOMAIN cfgs : n \in DOMAIN cfgs' /\ cfgs'[n] = cfgs[n]
       /\ (stack = <<>> /\ last' # last /\ last'.op = "NewCfg" /\ last'.name \in DOMAIN cfgs)
             => /\ last'.st = "hit"
                /\ last'.id = cfgs[last'.name]
                /\ cfgs' = cfgs /\ heap' = heap /\ fs' = fs
                /\ stack' = <<>> /\ readers' = <<>> /\ lastRead' = lastRead]_vars

\* C2: NewCfg has returned the cached tree of a name first loaded from file m,
\* edited since, while m now holds another configuration
C2_Witness ==
    /\ last.op = "NewCfg" /\ last.st = "hit" /\ last.arg = <<fM>>
    /\ heap[last.id].fname = fM
    /\ fM \in DOMAIN fs /\ fs[fM] # Text(SampleLines)
    /\ \E v \in EditVals : Str(heap[last.id], nB, nR, nC, <<>>) = v
    /\ Str(heap[last.id], nB, nS, nX, <<>>) = <<"a",",","b">>

\* C5: an EditEntry(t, r, c, v) step on a block leaves Str(t, r, c, d) = v for
\* every d; block t and row r exist afterwards; every other entry, row and
\* block of the tree, every other tree, the cache and the files are unchanged.
C5_EditEntryFrame ==
    [][nEdits' = nEdits + 1 =>
        LET id   == last'.id
            a    == last'.arg
            tp   == Append(a[1], a[2])
            recv == BlockAt(heap'[id], a[1])
        IN  /\ last'.op = "EditEntry" /\ last'.st = "ok"
            /\ \A d \in Defaults \cup {<<>>} : Str(recv, a[2], a[3], a[4], d) = a[5]
            /\ AllEntries(heap'[id]) =
                  {e \in AllEntries(heap[id]) : <<e[1], e[2], e[3]>> # <<tp, a[3], a[4]>>}
                      \cup {<<tp, a[3], a[4], a[5]>>}
            /\ AllPaths(heap'[id]) = AllPaths(heap[id]) \cup {tp}
            /\ AllRows(heap'[id]) = AllRows(heap[id]) \cup {<<tp, a[3]>>}
            /\ \A j \in DOMAIN heap : j # id => heap'[j] = heap[j]
            /\ DOMAIN heap' = DOMAIN heap
            /\ cfgs' = cfgs /\ fs' = fs]_vars

\* C5: EditEntry has just created block x and its row in a loaded tree that
\* holds other blocks and rows
C5_Witness ==
    /\ last.op = "EditEntry" /\ last.arg[2] = nX
    /\ Str(heap[last.id], nX, nR, nC, <<>>) = last.arg[5]
    /\ RowExists(heap[last.id], nB, nS)
    /\ nEdits = 2

\* an integer literal: an optional sign and one decimal digit or more
IsIntLiteral(s) ==
    LET body == IF s # <<>> /\ Head(s) \in {"+", "-"} THEN Tail(s) ELSE s
    IN  body # <<>> /\ \A i \in 1..Len(body) : IsDigit(body[i])

\* C6: when file o holds what CfgWrite gives for the tree of n1, built from
\* NewCfgMem by EditEntry calls, and the load of o under n2 has returned, the
\* tree of n2 has the block names, the row names of each block and the
\* column names and values of each row that the tree of n1 has.
C6_RoundTrip ==
    (stack = <<>> /\ last.op = "NewCfg" /\ last.name = N2 /\ last.st = "loaded"
        /\ N1 \in DOMAIN cfgs /\ fs[fO] \in CfgWrite(heap[cfgs[N1]]))
    => Content(heap[cfgs[N2]]) = Content(heap[cfgs[N1]])

\* C7: when the stored text is not, in its entirety, an integer literal, Int,
\* SelfInt, NestedInt and the Int64 variants return the caller's default, as
\* they do when the column is absent.
C7_InvalidNumberIsDefault ==
    last.op \in IntFns =>
        LET a == last.arg
            v == Stored(GetBlock(heap[last.id], a[1]), a[2], a[3])
        IN  (\A x \in v : ~IsIntLiteral(x)) => last.ret = a[4]

\* C8: NestedStr(p, row, col, d) is GetBlock(p).SelfStr(row, col, d) when
\* GetBlock(p) resolves and d when it does not, and for a non-empty p whose
\* front resolves it is GetBlock(front of p).Str(last of p, row, col, d).
C8_AccessPatternsAgree ==
    last.op = "NestedStr" =>
        LET cfg == heap[last.id]
            p   == last.arg[1]
            row == last.arg[2]
            col == last.arg[3]
            d   == last.arg[4]
            g   == GetBlock(cfg, p)
        IN  /\ g # Nil => last.ret = SelfStr(g, row, col, d)
            /\ g = Nil => last.ret = d
            /\ (p # <<>> /\ GetBlock(cfg, Front(p)) # Nil) =>
                   last.ret = Str(GetBlock(cfg, Front(p)), Top(p), row, col, d)

\* C8 as stated, for every non-empty p: the call GetBlock(front of p).Str(last
\* of p, row, col, d) returns, and returns what NestedStr(p, row, col, d)
\* returned.  (Str has a value receiver: called through the nil pointer that
\* GetBlock gives for a path with a missing segment, it panics.)
C8_AccessPatternsAgreeEveryPath ==
    last.op = "NestedStr" =>
        LET cfg == heap[last.id]
            p   == last.arg[1]
            g   == GetBlock(cfg, p)
        IN  /\ g # Nil => last.ret = SelfStr(g, last.arg[2], last.arg[3], last.arg[4])
            /\ g = Nil => last.ret = last.arg[4]
            /\ p # <<>> =>
                   /\ GetBlock(cfg, Front(p)) # Nil
                   /\ last.ret = Str(GetBlock(cfg, Front(p)), Top(p),
                                     last.arg[2], last.arg[3], last.arg[4])

\* C8: the nested lookup of path b, d has found the value of a loaded tree
C8_Witness ==
    /\ last.op = "NestedStr" /\ last.arg = <<<<nB, nD>>, nR, nC, <<"D">>>>
    /\ last.ret = <<"v">>
    /\ GetBlock(heap[last.id], <<nB, nD>>) # Nil

\* C9: Expandlist(block, row, col, row2) is duplicate-free and its elements
\* are exactly the comma-split members of the values at (block, row2, k), for
\* the keys k comma-split from the value at (block, row, col); an absent source
\* column and a key without a column in row2 add nothing.
C9_ExpandlistIsUnion ==
    last.op = "Expandlist" =>
        LET blk   == GetBlock(heap[last.id], <<last.arg[1]>>)
            keys  == UNION {Elems(Split(v, ",")) : v \in Stored(blk, last.arg[2], last.arg[3])}
            union == UNION {UNION {Elems(Split(v, ",")) : v \in Stored(blk, last.arg[4], k)} :
                               k \in keys}
        IN  NoDup(last.ret) /\ Elems(last.ret) = union

\* C10: GetRows(b) lists each row of child block b once and nothing when b is
\* absent, GetCols(b, r) each column of that row once and nothing when b or r
\* is absent, and RowExists(b, r) holds exactly when r is listed by GetRows(b).
C10_Introspection ==
    LET cfg == heap[last.id]
        b   == last.arg[1]
        has == b \in DOMAIN cfg.tbls
    IN  /\ last.op = "GetRows" =>
              /\ NoDup(last.ret)
              /\ Elems(last.ret) = IF has THEN DOMAIN cfg.tbls[b].rows ELSE {}
              /\ ~has => last.ret = <<>>
        /\ last.op = "GetCols" =>
              /\ NoDup(last.ret)
              /\ Elems(last.ret) = IF has /\ last.arg[2] \in DOMAIN cfg.tbls[b].rows
                                   THEN DOMAIN cfg.tbls[b].rows[last.arg[2]].cols ELSE {}
              /\ (~has \/ last.arg[2] \notin DOMAIN cfg.tbls[b].rows) => last.ret = <<>>
        /\ last.op = "RowExists" =>
              (last.ret <=> last.arg[2] \in Elems(GetRows(cfg, b)))

\* C10: GetRows has listed the rows of block b of a loaded and edited tree,
\* among them a row that EditEntry made
C10_Witness ==
    /\ last.op = "GetRows" /\ last.arg = <<nB>>
    /\ Len(last.ret) >= 4
    /\ nX \in Elems(last.ret)
    /\ heap[last.id].fname = fM

\* C11: when NewCfg(name, path) has failed because the file or a file it
\* includes could not be opened, the cache is as it was before the call: name,
\* not registered before (else the call would have returned its tree), is not
\* registered, and no tree is to be had under it.
C11_FailedLoadLeavesNoTree ==
    (last.op = "NewCfg" /\ last.st = "panic") => last.name \notin DOMAIN cfgs

\* a line as the format reads it: without its comment and the blanks around it
RefLine(text) ==
    TrimSet(IF Index(text, <<"#">>) >= 0 THEN UpTo(text, Index(text, <<"#">>)) ELSE text, Blank)

\* a line `%block <name>`, and a line whose first content is }
RefIsBlock(t) == Len(t) > 7 /\ ToLower(UpTo(t, 7)) = kwBlock \o <<" ">>
RefIsEnd(t) == t # <<>> /\ t[1] = "}"

\* the block scope after the lines, by their nesting alone: the names of the
\* blocks opened and not yet ended, outermost first
RECURSIVE RefScope(_, _)
RefScope(lines, scope) ==
    IF lines = <<>> THEN scope
    ELSE RefScope(Tail(lines),
                  IF RefIsBlock(RefLine(Head(lines)))
                  THEN Append(scope, TrimSet(From(RefLine(Head(lines)), 7), Blank))
                  ELSE IF RefIsEnd(RefLine(Head(lines))) THEN Front(scope)
                  ELSE scope)

\* the lines are properly nested: no } without a block to end, and no block
\* left open at the end
RECURSIVE RefNested(_, _)
RefNested(lines, depth) ==
    IF lines = <<>> THEN depth = 0
    ELSE IF RefIsBlock(RefLine(Head(lines))) THEN RefNested(Tail(lines), depth + 1)
    ELSE IF RefIsEnd(RefLine(Head(lines))) THEN depth > 0 /\ RefNested(Tail(lines), depth - 1)
    ELSE RefNested(Tail(lines), depth)

\* C12: in the load of a single file (no include lines) that is properly
\* nested, every line is read in the scope its nesting gives, the root for a
\* line that no block contains: a row line adds its row to the block of that
\* scope and to no other block, and no other line adds a row anywhere.
C12_RowsInInnermostBlock ==
    [][(stack # <<>> /\ fs[fM] = fs[fO]
           /\ RefNested(Split(fs[readers[Top(stack).rdr].fname], "\n"), 0))
       => LET rd    == readers[Top(stack).rdr]
              scope == RefScope(Split(UpTo(fs[rd.fname], rd.pos), "\n"), <<>>)
              t     == RefLine(lastRead'.text)
          IN  /\ Top(stack).path = scope
              /\ lastRead'.path = scope
              /\ IsRowLine(t) =>
                    AllRows(heap'[last.id]) =
                        AllRows(heap[last.id]) \cup {<<scope, RowNameOf(t)>>}
              /\ ~IsRowLine(t) => AllRows(heap'[last.id]) \subseteq AllRows(heap[last.id])]_vars

\* C12: in the load of a properly nested file, a row line has been read in
\* block b after the nested block d, with a row of its own, was ended; the row
\* is in b
C12_Witness ==
    /\ fs[fM] = fs[fO] /\ RefNested(Split(fs[fM], "\n"), 0)
    /\ last.op = "NewCfg" /\ last.st = "loading"
    /\ lastRead.text = RowLine /\ lastRead.path = <<nB>>
    /\ <<<<nB, nD>>, <<"t">>>> \in AllRows(heap[last.id])
    /\ <<<<nB>>, nR>> \in AllRows(heap[last.id])
    /\ <<<<nB, nD>>, nR>> \notin AllRows(heap[last.id])

\* the columns the pairs give
ColsOf(pairs) == [k \in {kv[1] : kv \in pairs} |-> (CHOOSE kv \in pairs : kv[1] = k)[2]]

\* the columns of a row of a block, none for a row the block has not
ColsIn(blk, name) == IF name \in DOMAIN blk.rows THEN blk.rows[name].cols ELSE EmptyMap

\* C13: a line read that does not begin with += and has ::, with a += only
\* after it or none, defines its row anew: the row has the columns of the line
\* and no others.  A line with += before :: and text before += continues the
\* row of that name: the row has the columns it had, with those of the line
\* added or overwritten.
C13_FirstOperatorDecides ==
    [][stack # <<>> =>
        LET t    == RefLine(lastRead'.text)
            nn   == Index(t, <<":", ":">>)
            na   == Index(t, <<"+", "=">>)
            old  == BlockAt(heap[last.id], Top(stack).path)
            new  == BlockAt(heap'[last.id], Top(stack).path)
            name == TrimSet(UpTo(t, IF na > 0 /\ na < nn THEN na ELSE nn), Blank)
            cols == ColsOf(PairsOf(From(t, (IF na > 0 /\ na < nn THEN na ELSE nn) + 2)))
        IN  /\ (nn > 0 /\ (na < 0 \/ na > nn)) => ColsIn(new, name) = cols
            /\ (na > 0 /\ nn > na) =>
                  ColsIn(new, name) =
                      [k \in DOMAIN ColsIn(old, name) \cup DOMAIN cols |->
                          IF k \in DOMAIN cols THEN cols[k] ELSE ColsIn(old, name)[k]]]_vars

\* C14: in the load of files whose include targets all exist, no more files
\* are open at once than there are files, and NewCfg does not fail.
C14_IncludeDepthBounded ==
    (fM \in DOMAIN fs /\ fI \in DOMAIN fs /\ DOMAIN fs = {fM, fI})
    => /\ Len(readers) <= Cardinality(DOMAIN fs)
       /\ ~(last.op = "NewCfg" /\ last.st = "panic")

====
